---------------------------- MODULE Spec2Model ----------------------------
(***************************************************************************)
(* A model of u-root's Multiboot v1 loader (pkg/multiboot) and of the part *)
(* of pkg/kexec it drives.                                                 *)
(*                                                                         *)
(* Number representations.  The checker's integers are 32-bit signed, so:  *)
(*   - a uint32 that is read from or compared against file bytes is a pair *)
(*     <<lo, hi>> of 16-bit halves (value lo + 65536*hi);                  *)
(*   - a uintptr of the host memory map that may reach 4 GiB and beyond is *)
(*     a pair <<k, r>>, value 1024*k + r with r in 0..1023;                *)
(*   - addresses and sizes handled by the Load() pipeline are plain        *)
(*     naturals in bytes, below 2^31.                                      *)
(***************************************************************************)
EXTENDS Integers, Sequences, FiniteSets, TLC

VARIABLES
    args,         \* arguments of the function under test (function specifications)
    ret,          \* its result, "none" before the call
    input,        \* Load(): the files and the host memory map the Multiboot is given
    pc,           \* Load(): the phase about to run
    mem,          \* m.mem: [Phys, Segments]
    header,       \* m.header, the parsed header
    KernelEntry,  \* m.KernelEntry
    InfoAddr,     \* m.InfoAddr
    EntryPoint,   \* m.EntryPoint
    loadErr,      \* what Load() returned: "running", "nil" or the failing phase
    obs           \* ghost: what the phases computed (reserved addresses, module records, info)

vars == <<args, ret, input, pc, mem, header, KernelEntry, InfoAddr, EntryPoint, loadErr, obs>>

funVars == <<args, ret>>
loadVars == <<input, pc, mem, header, KernelEntry, InfoAddr, EntryPoint, loadErr, obs>>

---------------------------------------------------------------------------
(* Bytes and fixed-width words *)

Byte == 0..255

Min(a, b) == IF a < b THEN a ELSE b
Max(a, b) == IF a > b THEN a ELSE b

Zeros(n) == [i \in 1..n |-> 0]

RECURSIVE BitAnd(_, _)
BitAnd(a, b) ==
    IF a = 0 \/ b = 0 THEN 0
    ELSE (a % 2) * (b % 2) + 2 * BitAnd(a \div 2, b \div 2)

\* nativeEndian as init() sets it: the first byte of the int 0x0100 is 0x00 on
\* x86, which selects binary.LittleEndian.
nativeEndian == "LittleEndian"

\* nativeEndian.Uint32 of the four bytes b[i..i+3] (i is 1-based), as <<lo, hi>>.
Uint32At(b, i) ==
    IF nativeEndian = "LittleEndian"
    THEN <<b[i] + 256 * b[i + 1], b[i + 2] + 256 * b[i + 3]>>
    ELSE <<b[i + 3] + 256 * b[i + 2], b[i + 1] + 256 * b[i]>>

\* nativeEndian.PutUint32 of the word <<lo, hi>>.
PutUint32(w) ==
    IF nativeEndian = "LittleEndian"
    THEN <<w[1] % 256, w[1] \div 256, w[2] % 256, w[2] \div 256>>
    ELSE <<w[2] \div 256, w[2] % 256, w[1] \div 256, w[1] % 256>>

\* uint32 addition, wrapping at 2^32.
Add32(x, y) ==
    LET lo == x[1] + y[1]
    IN  <<lo % 65536, (x[2] + y[2] + lo \div 65536) % 65536>>

\* uint32 negation (two's complement).
Neg32(x) == Add32(<<65535 - x[1], 65535 - x[2]>>, <<1, 0>>)

And32(x, y) == <<BitAnd(x[1], y[1]), BitAnd(x[2], y[2])>>

\* The uint32 of a natural below 2^31.
Word(n) == <<n % 65536, (n \div 65536) % 65536>>

---------------------------------------------------------------------------
(* header.go: the Multiboot header *)

headerMagic == <<\hB002, \h1BAD>>
flagHeaderMemoryInfo == <<2, 0>>
\* A mask that lets the video-mode bit through.
flagHeaderUnsupportedNarrow == <<\hFFF8, 0>>
flagHeaderUnsupported == <<\hFFFC, 0>>

mandatorySize == 12
optionalSize == 36
sizeofHeader == mandatorySize + optionalSize
HeaderWindow == 8192

\* io.ReadAtLeast(r, buf, mandatorySize) on a buffer of 8192 bytes: the number
\* of bytes read from a regular file holding the bytes f.
ReadN(f) == Min(Len(f), HeaderWindow)

\* buf after the 36 zero bytes are appended (1-based index i); n = ReadN(f).
BufAt(f, n, i) == IF i <= n THEN f[i] ELSE 0

\* The candidate at byte offset o of buf: binary.Read of the mandatory words.
CandMagic(f, n, o) ==
    Uint32At([j \in 1..4 |-> BufAt(f, n, o + j)], 1)
CandFlags(f, n, o) ==
    Uint32At([j \in 1..4 |-> BufAt(f, n, o + 4 + j)], 1)
CandChecksum(f, n, o) ==
    Uint32At([j \in 1..4 |-> BufAt(f, n, o + 8 + j)], 1)

\* hdr.Magic == headerMagic && (hdr.Magic+hdr.Flags+hdr.Checksum) == 0
CandValid(f, n, o) ==
    /\ CandMagic(f, n, o) = headerMagic
    /\ Add32(Add32(CandMagic(f, n, o), CandFlags(f, n, o)), CandChecksum(f, n, o)) = <<0, 0>>

\* A loop that moves on by one byte.
ScanEveryByte(n) == 0..(n + optionalSize - sizeofHeader)

\* The offsets the loop visits: buf shrinks by 4 while len(buf) >= sizeofHeader,
\* with len(buf) = n + optionalSize at the start.
ScanOffsets(n) ==
    {o \in 0..(n + optionalSize - sizeofHeader) : o % 4 = 0}

\* The least element of a non-empty set of offsets, -1 for the empty set.
firstOf(hits) ==
    IF hits = {} THEN -1
    ELSE CHOOSE o \in hits : \A p \in hits : o <= p

\* The first offset at which the loop returns, or -1 when it runs to the end.
FirstValid(f, n) == firstOf({o \in ScanOffsets(n) : CandValid(f, n, o)})

\* The offset of the last candidate the loop decodes into hdr when none
\* validates.
LastScanned(n) == 4 * ((n + optionalSize - sizeofHeader) \div 4)

\* The return of parseHeader for the candidate at o (-1: none validated, and
\* hdr is what binary.Read left of the last candidate).
headerAt(f, n, o) ==
    IF o = -1
    THEN [err |-> "ErrHeaderNotFound", Flags |-> CandFlags(f, n, LastScanned(n)),
          at |-> -1]
    ELSE IF And32(CandFlags(f, n, o), flagHeaderUnsupported) # <<0, 0>>
         THEN [err |-> "ErrFlagsNotSupported", Flags |-> CandFlags(f, n, o), at |-> o]
         ELSE [err |-> "nil", Flags |-> CandFlags(f, n, o), at |-> o]

\* parseHeader after io.ReadAtLeast has read n bytes of f.
parseHeaderRead(f, n) ==
    IF n < mandatorySize
    THEN [err |-> IF n = 0 THEN "EOF" ELSE "ErrUnexpectedEOF",
          Flags |-> <<0, 0>>, at |-> -1]
    ELSE headerAt(f, n, FirstValid(f, n))

\* parseHeader: [err, Flags, at]; at is the offset of the returned header.
parseHeader(f) == parseHeaderRead(f, ReadN(f))

\* Probe(file): exists is whether os.Open succeeds.
Probe(exists, f) ==
    IF ~exists THEN "ErrNotExist" ELSE parseHeader(f).err

---------------------------------------------------------------------------
(* pkg/kexec: ranges, the segment table and the allocator.  Only the tests  *)
(* of this package are part of the sources at hand; the definitions below   *)
(* follow the specification's sections 3, 4.1, 4.3 and 4.4.                 *)

PageSize == 4096

Range(start, size) == [Start |-> start, Size |-> size]
End(r) == r.Start + r.Size

\* Two ranges share a byte.
Overlaps(a, b) == Max(a.Start, b.Start) < Min(End(a), End(b))

alignUp(n) == ((n + PageSize - 1) \div PageSize) * PageSize

\* A removal that keeps only the part below the hole.
subRangeBelow(r, h) ==
    IF r.Size = 0 THEN <<>>
    ELSE IF ~Overlaps(r, h) THEN <<r>>
    ELSE IF h.Start > r.Start
         THEN <<[Start |-> r.Start, Size |-> h.Start - r.Start, Type |-> r.Type]>>
         ELSE <<>>

\* What is left of the typed range r once the hole h is removed: the part
\* below the hole, then the part above it; empty parts are dropped.
subRange(r, h) ==
    IF r.Size = 0 THEN <<>>
    ELSE IF ~Overlaps(r, h) THEN <<r>>
    ELSE (IF h.Start > r.Start
          THEN <<[Start |-> r.Start, Size |-> h.Start - r.Start, Type |-> r.Type]>>
          ELSE <<>>)
         \o (IF End(h) < End(r)
             THEN <<[Start |-> End(h), Size |-> End(r) - End(h), Type |-> r.Type]>>
             ELSE <<>>)

RECURSIVE subEach(_, _)
subEach(rs, h) ==
    IF rs = <<>> THEN <<>>
    ELSE subRange(Head(rs), h) \o subEach(Tail(rs), h)

RECURSIVE subtract(_, _)
subtract(universe, holes) ==
    IF holes = <<>> THEN subEach(universe, Range(0, 0))
    ELSE subtract(subEach(universe, Head(holes)), Tail(holes))

SegmentRanges(m) == [i \in 1..Len(m.Segments) |-> m.Segments[i].Phys]

\* Memory.sub(): the memory map minus the claimed segments.
MemorySub(m) == subtract(m.Phys, SegmentRanges(m))

IsRAM(r) == r.Type = "RangeRAM"

\* The free RAM gaps the allocator scans, in the order of the memory map.
availableRAM(m) == subtract(SelectSeq(m.Phys, IsRAM), SegmentRanges(m))

\* First fit over the gaps: the page-aligned start of the first gap that
\* holds sz bytes from there, or -1 (out of physical space).
firstFit(gaps, sz) ==
    LET fits == {i \in 1..Len(gaps) : alignUp(gaps[i].Start) + sz <= End(gaps[i])}
    IN  IF fits = {} THEN -1
        ELSE alignUp(gaps[CHOOSE i \in fits : \A j \in fits : i <= j].Start)

\* A FindSpace that forgets the claimed segments and scans the RAM ranges.
FindSpaceIgnoringSegments(m, sz) == firstFit(SelectSeq(m.Phys, IsRAM), sz)

\* FindSpace(sz): nothing is reserved.
FindSpace(m, sz) == firstFit(availableRAM(m), sz)

\* The segment table once d is stored at a: [mem, addr].
addSegmentAt(m, d, a) ==
    IF a = -1 THEN [mem |-> m, addr |-> -1]
    ELSE [mem |-> [m EXCEPT !.Segments =
                      Append(@, [Phys |-> Range(a, Len(d)), Buf |-> d])],
          addr |-> a]

\* AddKexecSegment(d): [mem, addr]; addr = -1 and mem unchanged when no gap fits.
AddKexecSegment(m, d) == addSegmentAt(m, d, FindSpace(m, Len(d)))

\* ParseMemoryMap(): the children of the memory-map directory, in name
\* order, each giving start, end and type; size = end - start.
ParseMemoryMap(m, memmap) ==
    IF ~memmap.ok THEN [mem |-> m, err |-> "MemoryMapMalformed"]
    ELSE [mem |-> [m EXCEPT !.Phys =
                      [i \in 1..Len(memmap.dirs) |->
                          [Start |-> memmap.dirs[i].start,
                           Size |-> memmap.dirs[i].end - memmap.dirs[i].start,
                           Type |-> memmap.dirs[i].type]]],
          err |-> "nil"]

\* The segment of one PT_LOAD program header of the kernel file.
ElfSegment(bytes, p) ==
    [Phys |-> Range(p.Paddr, p.Memsz),
     Buf |-> SubSeq(bytes, p.Off + 1, p.Off + p.Filesz)]

IsLoad(p) == p.Type = "PT_LOAD"

ElfSegments(bytes, loads) ==
    [i \in 1..Len(loads) |-> ElfSegment(bytes, loads[i])]

addElfSegments(m, ok, segs) ==
    IF ~ok
    THEN [mem |-> m, err |-> "ElfMalformed"]
    ELSE IF \E i, j \in 1..Len(segs) : i < j /\ Overlaps(segs[i].Phys, segs[j].Phys)
         THEN [mem |-> m, err |-> "ElfSegmentOverlap"]
         ELSE [mem |-> [m EXCEPT !.Segments = @ \o segs], err |-> "nil"]

\* LoadElfSegments(kernel): one segment per PT_LOAD header at p_paddr of
\* p_memsz bytes; fails when the file is no ELF image or two of them overlap.
LoadElfSegments(m, kernel) ==
    addElfSegments(m, kernel.elf.ok,
                   ElfSegments(kernel.bytes, SelectSeq(kernel.elf.Progs, IsLoad)))

---------------------------------------------------------------------------
(* info.go: the Multiboot information structure *)

RECURSIVE BitOr(_, _)
BitOr(a, b) ==
    IF a = 0 THEN b
    ELSE IF b = 0 THEN a
    ELSE (IF a % 2 = 1 \/ b % 2 = 1 THEN 1 ELSE 0) + 2 * BitOr(a \div 2, b \div 2)

flagInfoMemory == 1
flagInfoCmdLine == 4
flagInfoMods == 8
flagInfoMemMap == 64
flagInfoBootLoaderName == 512

\* The fields of Info the loader writes; every other field stays zero.
\* Flags is a natural, the other fields are uint32 words <<lo, hi>>.
ZeroInfo ==
    [Flags |-> 0, MemLower |-> <<0, 0>>, MemUpper |-> <<0, 0>>,
     CmdLine |-> <<0, 0>>, ModsCount |-> <<0, 0>>, ModsAddr |-> <<0, 0>>,
     MmapLength |-> <<0, 0>>, MmapAddr |-> <<0, 0>>, BootLoaderName |-> <<0, 0>>]

\* binary.Write(&buf, nativeEndian, iw.Info): the struct's fields in order.
InfoBytes(info) ==
    PutUint32(Word(info.Flags)) \o PutUint32(info.MemLower) \o PutUint32(info.MemUpper)
    \o Zeros(4)                                        \* BootDevice
    \o PutUint32(info.CmdLine)
    \o PutUint32(info.ModsCount) \o PutUint32(info.ModsAddr)
    \o Zeros(16)                                       \* Syms
    \o PutUint32(info.MmapLength) \o PutUint32(info.MmapAddr)
    \o Zeros(12)                                       \* DriversLength, DrivesrAddr, ConfigTable
    \o PutUint32(info.BootLoaderName)
    \o Zeros(12)                                       \* APMTable, VBEControlInfo, VBEModeInfo
    \o Zeros(8)                                        \* VBEMode .. VBEInterfaceLen
    \o Zeros(4)                                        \* FramebufferAddr, FramebufferPitch
    \o Zeros(8)                                        \* FramebufferWidth, FramebufferHeight
    \o Zeros(8)                                        \* FramebufferBPP, FramebufferType, ColorInfo

\* binary.Size(Info{})
sizeofInfo == Len(InfoBytes(ZeroInfo))

\* (n + 3) &^ 3
PadTo4(n) == ((n + 3) \div 4) * 4

\* buf padded with zeros to size = (buf.Len() + 3) &^ 3.
padded(buf) == buf \o Zeros(PadTo4(Len(buf)) - Len(buf))

\* The bytes marshal writes, given the value of offset at its first line.
infoMarshalAt(iw, offset) ==
    padded(InfoBytes([iw.Info EXCEPT
                         !.CmdLine = offset,
                         !.BootLoaderName = Add32(offset, Word(Len(iw.CmdLine) + 1))])
           \o iw.CmdLine \o <<0>> \o iw.BootLoaderName \o <<0>>)

\* A marshal that leaves base out of the pointers.
infoMarshalNoBase(iw, base) == infoMarshalAt(iw, Word(sizeofInfo))

\* infoWrapper.marshal(base); iw = [Info, CmdLine, BootLoaderName].
infoMarshal(iw, base) == infoMarshalAt(iw, Add32(Word(sizeofInfo), Word(base)))

\* infoWrapper.size()
infoSize(iw) == Len(infoMarshal(iw, 0))

---------------------------------------------------------------------------
(* module.go: modules *)

\* binary.Write of one Module{Start, End, CmdLine, Reserved}.
ModuleBytes(start, end, cmdLine) ==
    PutUint32(start) \o PutUint32(end) \o PutUint32(cmdLine) \o Zeros(4)

\* binary.Size(Module{})
sizeofModule == Len(ModuleBytes(<<0, 0>>, <<0, 0>>, <<0, 0>>))

\* One round of the loop of modules.marshal.
marshalStep(prev, mod, base) ==
    [cmdBuf |-> prev.cmdBuf \o mod.cmdLine \o <<0>>,
     dataBuf |-> prev.dataBuf
                 \o ModuleBytes(mod.start, mod.end,
                                Add32(Word(base), Word(Len(prev.cmdBuf))))]

\* The state of the loop of modules.marshal after the first n modules.
RECURSIVE marshalLoop(_, _, _)
marshalLoop(mods, base, n) ==
    IF n = 0 THEN [cmdBuf |-> <<>>, dataBuf |-> <<>>]
    ELSE marshalStep(marshalLoop(mods, base, n - 1), mods[n], base)

\* append(cmdBuf.Bytes(), dataBuf.Bytes()...)
joinBufs(l) == l.cmdBuf \o l.dataBuf

\* modules.marshal(base): the command lines, then the descriptors.
modulesMarshal(mods, base) == joinBufs(marshalLoop(mods, base, Len(mods)))

\* modules.size()
modulesSize(mods) == Len(modulesMarshal(mods, 0))

\* strings.Join(args, " ")
RECURSIVE Join(_)
Join(a) ==
    IF a = <<>> THEN <<>>
    ELSE IF Len(a) = 1 THEN a[1]
    ELSE a[1] \o <<32>> \o Join(Tail(a))

\* An end one past the last byte, as the comment on Module.End has it.
moduleEndExclusive(addr, len) == Add32(Word(addr), Word(len))

\* The inclusive end recorded for a module of len bytes installed at addr.
moduleEnd(addr, len) == Add32(Add32(Word(addr), Word(len)), Neg32(<<1, 0>>))

\* The result of addModule once AddKexecSegment returned r.
moduleAdded(m, f, r) ==
    IF r.addr = -1 THEN [mem |-> m, err |-> "OutOfPhysicalSpace"]
    ELSE [mem |-> r.mem, err |-> "nil", addr |-> r.addr,
          mod |-> [start |-> Word(r.addr),
                   end |-> moduleEnd(r.addr, Len(f.data)),
                   cmdLine |-> Join(f.args)]]

\* addModule(name, args...); f is the module file: [exists, data, args],
\* data being what readModule returns (the bytes, gunzipped when gzip).
addModule(m, f) ==
    IF ~f.exists THEN [mem |-> m, err |-> "ModuleReadFailed"]
    ELSE IF Len(f.data) = 0 THEN [mem |-> m, err |-> "errEmptyModule"]
    ELSE moduleAdded(m, f, AddKexecSegment(m, f.data))

\* One round of the loop of addModules, addModule having returned r.
addModulesCollect(prev, f, r) ==
    IF r.err = "errEmptyModule" THEN prev
    ELSE IF r.err # "nil" THEN [prev EXCEPT !.err = r.err]
    ELSE [mem |-> r.mem, err |-> "nil",
          modules |-> Append(prev.modules, r.mod),
          loaded |-> Append(prev.loaded,
                            [addr |-> r.addr, len |-> Len(f.data),
                             seg |-> Len(r.mem.Segments)])]

addModulesStep(prev, f) ==
    IF prev.err # "nil" THEN prev
    ELSE addModulesCollect(prev, f, addModule(prev.mem, f))

\* The loop of addModules over the first n module files:
\* [mem, err, modules, loaded]; loaded keeps, for each module added, the
\* address AddKexecSegment returned, the length of its data and the place
\* of its segment in m.mem.Segments.
RECURSIVE addModulesLoop(_, _, _)
addModulesLoop(m, files, n) ==
    IF n = 0 THEN [mem |-> m, err |-> "nil", modules |-> <<>>, loaded |-> <<>>]
    ELSE addModulesStep(addModulesLoop(m, files, n - 1), files[n])

\* What addModules returns: [mem, err, addr] and, for the record, the
\* modules loaded and the address FindSpace gave.
modulesResult(l, err, found, mem2, addr) ==
    [mem |-> mem2, err |-> err, addr |-> addr, modules |-> l.modules,
     loaded |-> l.loaded, found |-> found, seg |-> Len(mem2.Segments)]

\* addr, err = m.mem.AddKexecSegment(d) having returned r.
addModulesDone(l, found, r) ==
    IF r.addr = -1 THEN modulesResult(l, "OutOfPhysicalSpace", found, l.mem, 0)
    ELSE modulesResult(l, "nil", found, r.mem, r.addr)

\* addr, err := m.mem.FindSpace(size) having returned found.
addModulesInstall(l, found) ==
    IF found = -1 THEN modulesResult(l, "OutOfPhysicalSpace", -1, l.mem, 0)
    ELSE addModulesDone(l, found,
                        AddKexecSegment(l.mem, modulesMarshal(l.modules, found)))

\* The part of addModules after its loop.
addModulesTable(l) ==
    IF l.err # "nil" THEN modulesResult(l, l.err, -1, l.mem, 0)
    ELSE addModulesInstall(l, FindSpace(l.mem, modulesSize(l.modules)))

\* addModules()
addModules(m, files) == addModulesTable(addModulesLoop(m, files, Len(files)))

---------------------------------------------------------------------------
(* multiboot.go: the memory map, the memory bounds and the info block *)

\* "u-root kexec"
bootloader == <<117, 45, 114, 111, 111, 116, 32, 107, 101, 120, 101, 99>>

\* rangeTypes, with RangeDefault's value for a type that is not in the map.
rangeTypes(t) ==
    CASE t = "RangeRAM" -> 1
      [] t = "RangeDefault" -> 2
      [] t = "RangeNVACPI" -> 3
      [] t = "RangeACPI" -> 3
      [] t = "RangeNVS" -> 4
      [] OTHER -> 2

\* nativeEndian.PutUint64 of a natural below 2^31.
PutUint64(n) ==
    IF nativeEndian = "LittleEndian"
    THEN PutUint32(Word(n)) \o Zeros(4)
    ELSE Zeros(4) \o PutUint32(Word(n))

\* binary.Write of one MemoryMap{Size, BaseAddr, Length, Type}.
MemoryMapBytes(e) ==
    PutUint32(Word(e.Size)) \o PutUint64(e.BaseAddr) \o PutUint64(e.Length)
    \o PutUint32(Word(e.Type))

\* binary.Size(MemoryMap{})
sizeofMemoryMap == Len(MemoryMapBytes([Size |-> 0, BaseAddr |-> 0, Length |-> 0, Type |-> 0]))

\* Multiboot.memoryMap()
memoryMap(m) ==
    [i \in 1..Len(m.Phys) |->
        [Size |-> sizeofMemoryMap - 4,
         BaseAddr |-> m.Phys[i].Start,
         Length |-> m.Phys[i].Size,
         Type |-> rangeTypes(m.Phys[i].Type)]]

\* memoryMaps.marshal()
RECURSIVE memoryMapsMarshal(_)
memoryMapsMarshal(mm) ==
    IF mm = <<>> THEN <<>>
    ELSE MemoryMapBytes(Head(mm)) \o memoryMapsMarshal(Tail(mm))

mmapAdded(m, r) ==
    [mem |-> r.mem, addr |-> r.addr, size |-> Len(m.Phys) * sizeofMemoryMap]

\* addMmap(): [mem, addr, size]; addr = -1 on error.
addMmap(m) == mmapAdded(m, AddKexecSegment(m, memoryMapsMarshal(memoryMap(m))))

\* Wide numbers <<k, r>> = 1024*k + r.  A uint32 has k below 2^22.
KiBPer4GiB == 4096 * 1024

Wide(n) == <<n \div 1024, n % 1024>>
WLt(a, b) == a[1] < b[1] \/ (a[1] = b[1] /\ a[2] < b[2])
WLe(a, b) == a = b \/ WLt(a, b)

\* uint32(x) of a uintptr x
WTrunc32(a) == <<a[1] % KiBPer4GiB, a[2]>>

\* uint32 addition and subtraction, wrapping at 2^32
WAdd32(a, b) ==
    <<(a[1] + b[1] + (a[2] + b[2]) \div 1024) % KiBPer4GiB, (a[2] + b[2]) % 1024>>
WSub32(a, b) ==
    LET borrow == IF a[2] < b[2] THEN 1 ELSE 0
    IN  <<(a[1] + 2 * KiBPer4GiB - b[1] - borrow) % KiBPer4GiB,
          (a[2] + 1024 - b[2]) % 1024>>

\* x >> 10
WShr10(a) == a[1]

M1 == <<1024, 0>>
K640 == <<640, 0>>

\* One round of the loop of memoryBoundaries for a RAM range, end being
\* uint32(r.Start) + uint32(r.Size).
boundariesUpdate(prev, r, end) ==
    [lower |-> IF WLe(r.Start, K640) /\ WLt(prev.lower, end)
               THEN end ELSE prev.lower,
     upper |-> IF WLe(r.Start, M1) /\ WLt(WAdd32(prev.upper, M1), end)
               THEN WSub32(end, M1) ELSE prev.upper]

boundariesStep(prev, r) ==
    IF r.Type # "RangeRAM" THEN prev
    ELSE boundariesUpdate(prev, r, WAdd32(WTrunc32(r.Start), WTrunc32(r.Size)))

\* The loop of memoryBoundaries over the first n ranges of phys, whose Start
\* and Size are wide numbers: [lower, upper], both uint32.
RECURSIVE boundariesLoop(_, _)
boundariesLoop(phys, n) ==
    IF n = 0 THEN [lower |-> <<0, 0>>, upper |-> <<0, 0>>]
    ELSE boundariesStep(boundariesLoop(phys, n - 1), phys[n])

memoryBoundaries(phys) == boundariesLoop(phys, Len(phys))

\* func min(a, b uint32) uint32, on words <<lo, hi>>
min32(a, b) ==
    IF a[2] < b[2] \/ (a[2] = b[2] /\ a[1] < b[1]) THEN a ELSE b

\* min(uint32(x>>10), 0xFFFFFFFF) for a uint32 x given as a wide number
KiBField(x) == min32(Word(WShr10(x)), <<65535, 65535>>)

\* m.mem.Phys with wide Start and Size
WidePhys(phys) ==
    [i \in 1..Len(phys) |->
        [Start |-> Wide(phys[i].Start), Size |-> Wide(phys[i].Size),
         Type |-> phys[i].Type]]

memoryInfoOf(b, mmapAddr, mmapSize) ==
    [ZeroInfo EXCEPT
        !.Flags = BitOr(flagInfoMemMap, flagInfoMemory),
        !.MemLower = KiBField(b.lower),
        !.MemUpper = KiBField(b.upper),
        !.MmapLength = Word(mmapSize),
        !.MmapAddr = Word(mmapAddr)]

\* The Info that newMultibootInfo fills in when flagHeaderMemoryInfo is set.
memoryInfo(phys, mmapAddr, mmapSize) ==
    memoryInfoOf(memoryBoundaries(phys), mmapAddr, mmapSize)

\* What is recorded of a call of addModules.
NoModules ==
    [err |-> "nil", addr |-> 0, found |-> -1, modules |-> <<>>, loaded |-> <<>>,
     seg |-> 0]
ModulesRecord(am) ==
    [err |-> am.err, addr |-> am.addr, found |-> am.found,
     modules |-> am.modules, loaded |-> am.loaded, seg |-> am.seg]
NoWrapper == [Info |-> ZeroInfo, CmdLine |-> <<>>, BootLoaderName |-> <<>>]

\* The last lines of newMultibootInfo: the command line and the loader name.
infoWrapperOf(info, cmdLine) ==
    [Info |-> [info EXCEPT
                  !.CmdLine = Word(sizeofInfo),
                  !.BootLoaderName = Word(sizeofInfo + Len(cmdLine) + 1),
                  !.Flags = BitOr(@, BitOr(flagInfoCmdLine, flagInfoBootLoaderName))],
     CmdLine |-> cmdLine,
     BootLoaderName |-> bootloader]

\* if len(m.modules) > 0 { ... }, addModules having returned am.
infoWithModules(info, cmdLine, nfiles, am) ==
    IF am.err # "nil"
    THEN [mem |-> am.mem, err |-> am.err, iw |-> NoWrapper,
          modsRan |-> TRUE, mods |-> ModulesRecord(am)]
    ELSE [mem |-> am.mem, err |-> "nil",
          iw |-> infoWrapperOf([info EXCEPT !.Flags = BitOr(@, flagInfoMods),
                                            !.ModsAddr = Word(am.addr),
                                            !.ModsCount = Word(nfiles)],
                               cmdLine),
          modsRan |-> TRUE, mods |-> ModulesRecord(am)]

\* newMultibootInfo after addMmap returned mm, info being the Info built
\* from the header's flags.
infoAfterMmap(mm, info, files, cmdLine) ==
    IF Len(files) > 0
    THEN infoWithModules(info, cmdLine, Len(files), addModules(mm.mem, files))
    ELSE [mem |-> mm.mem, err |-> "nil", iw |-> infoWrapperOf(info, cmdLine),
          modsRan |-> FALSE, mods |-> NoModules]

newInfoWith(m, hdrFlags, files, cmdLine, mm) ==
    IF mm.addr = -1
    THEN [mem |-> m, err |-> "OutOfPhysicalSpace", iw |-> NoWrapper,
          modsRan |-> FALSE, mods |-> NoModules]
    ELSE infoAfterMmap(mm,
                       IF And32(hdrFlags, flagHeaderMemoryInfo) # <<0, 0>>
                       THEN memoryInfo(WidePhys(m.Phys), mm.addr, mm.size)
                       ELSE ZeroInfo,
                       files, cmdLine)

\* newMultibootInfo(): [mem, err, iw] and, for the record, what addModules
\* returned.  hdrFlags is m.header.Flags, files the module files, cmdLine
\* m.cmdLine.
newMultibootInfo(m, hdrFlags, files, cmdLine) ==
    newInfoWith(m, hdrFlags, files, cmdLine, addMmap(m))

\* What addInfo returns: [mem, err, addr] and, for the record, the wrapper,
\* the address FindSpace gave and what addModules returned.
infoResult(n, err, found, mem2, addr) ==
    [mem |-> mem2, err |-> err, addr |-> addr, iw |-> n.iw,
     found |-> found, modsRan |-> n.modsRan, mods |-> n.mods,
     seg |-> Len(mem2.Segments)]

\* addr, err = m.mem.AddKexecSegment(d) having returned r.
addInfoDone(n, found, r) ==
    IF r.addr = -1 THEN infoResult(n, "OutOfPhysicalSpace", found, n.mem, 0)
    ELSE infoResult(n, "nil", found, r.mem, r.addr)

\* addr, err = m.mem.FindSpace(infoSize) having returned found.
addInfoInstall(n, found) ==
    IF found = -1 THEN infoResult(n, "OutOfPhysicalSpace", -1, n.mem, 0)
    ELSE addInfoDone(n, found, AddKexecSegment(n.mem, infoMarshal(n.iw, found)))

\* addInfo after newMultibootInfo returned n.
addInfoWith(n) ==
    IF n.err # "nil" THEN infoResult(n, n.err, -1, n.mem, 0)
    ELSE addInfoInstall(n, FindSpace(n.mem, infoSize(n.iw)))

\* An addInfo that asks FindSpace before newMultibootInfo claims the memory
\* map and the modules.
addInfoReserveFirst(m, hdrFlags, files, cmdLine) ==
    addInfoInstall(newMultibootInfo(m, hdrFlags, files, cmdLine),
                   FindSpace(m, infoSize(infoWrapperOf(ZeroInfo, cmdLine))))

\* addInfo()
addInfo(m, hdrFlags, files, cmdLine) ==
    addInfoWith(newMultibootInfo(m, hdrFlags, files, cmdLine))

---------------------------------------------------------------------------
(* trampoline.go *)

\* "u-root-ebx-long"
TrampolineEBX == <<117, 45, 114, 111, 111, 116, 45, 101, 98, 120, 45, 108, 111, 110, 103>>
\* "u-root-ep-quad"
TrampolineEP == <<117, 45, 114, 111, 111, 116, 45, 101, 112, 45, 113, 117, 97, 100>>

\* bytes.Index(d, label): the 0-based index of the first occurrence, or -1.
Index(d, label) ==
    LET hits == {i \in 0..(Len(d) - Len(label)) :
                    \A j \in 1..Len(label) : d[i + j] = label[j]}
    IN  IF hits = {} THEN -1
        ELSE CHOOSE i \in hits : \A k \in hits : i <= k

\* copy(d[at:], buf) once the label is found at ind = at - len(label).
replaceAt(d, ind, at, buf) ==
    IF ind = -1 THEN [err |-> "label not found", d |-> d]
    ELSE IF Len(d) < at + Len(buf) THEN [err |-> "ErrUnexpectedEOF", d |-> d]
    ELSE [err |-> "nil",
          d |-> [i \in 1..Len(d) |->
                    IF i > at /\ i <= at + Len(buf) THEN buf[i - at] ELSE d[i]]]

\* A patch written over the label itself.
patchOffsetAtLabel(ind, label) == ind

\* Where the patch goes for a label found at ind.
patchOffset(ind, label) == ind + Len(label)

replaceFound(d, label, buf, ind) == replaceAt(d, ind, patchOffset(ind, label), buf)

\* The closure replace of setupTrampoline: [err, d].
replace(d, label, buf) == replaceFound(d, label, buf, Index(d, label))

\* A uintptr as four 16-bit limbs, least significant first.
Limbs(n) == <<n % 65536, (n \div 65536) % 65536, 0, 0>>

\* nativeEndian.PutUint64 of a uintptr given by its limbs.
PutUint64Limbs(x) ==
    IF nativeEndian = "LittleEndian"
    THEN PutUint32(<<x[1], x[2]>>) \o PutUint32(<<x[3], x[4]>>)
    ELSE PutUint32(<<x[3], x[4]>>) \o PutUint32(<<x[1], x[2]>>)

\* The second replace, the first having returned r1.
patchEntry(r1, buf) ==
    IF r1.err # "nil" THEN r1
    ELSE replace(r1.d, TrampolineEP, SubSeq(buf, 5, 12))

trampolineResult(r) ==
    IF r.err # "nil" THEN [err |-> r.err, d |-> <<>>] ELSE r

patchBoth(d, buf) ==
    trampolineResult(patchEntry(replace(d, TrampolineEBX, SubSeq(buf, 1, 4)), buf))

\* setupTrampoline(path, infoAddr, entryPoint): [err, d].  file is
\* [exists, data]; infoAddr and entryPoint are given by their limbs.
setupTrampoline(file, infoAddr, entryPoint) ==
    IF ~file.exists THEN [err |-> "cannot read trampoline file", d |-> <<>>]
    ELSE patchBoth(file.data,
                   PutUint32(<<infoAddr[1], infoAddr[2]>>) \o PutUint64Limbs(entryPoint))

trampolineAdded(m, r) ==
    IF r.addr = -1 THEN [mem |-> m, err |-> "OutOfPhysicalSpace", addr |-> 0]
    ELSE [mem |-> r.mem, err |-> "nil", addr |-> r.addr]

addTrampolineWith(m, t) ==
    IF t.err # "nil" THEN [mem |-> m, err |-> t.err, addr |-> 0]
    ELSE trampolineAdded(m, AddKexecSegment(m, t.d))

\* addTrampoline(): [mem, err, addr].
addTrampoline(m, file, infoAddr, kernelEntry) ==
    addTrampolineWith(m, setupTrampoline(file, Limbs(infoAddr), Limbs(kernelEntry)))

---------------------------------------------------------------------------
(* The inputs of Load() *)

MaxModules == 2

\* Little-endian bytes of a word, as an x86 toolchain writes them to a file.
LE32(w) == <<w[1] % 256, w[1] \div 256, w[2] % 256, w[2] \div 256>>

\* A Multiboot header with the given flags and a matching checksum.
MkHeader(flags) ==
    LE32(headerMagic) \o LE32(flags) \o LE32(Neg32(Add32(headerMagic, flags)))
    \o Zeros(optionalSize)

ProgLoad(paddr, memsz, filesz) ==
    [Type |-> "PT_LOAD", Paddr |-> paddr, Memsz |-> memsz, Filesz |-> filesz, Off |-> 0]
ProgNote == [Type |-> "PT_NOTE", Paddr |-> 0, Memsz |-> 32, Filesz |-> 32, Off |-> 0]

MkKernel(ok, bytes, entry, progs) ==
    [bytes |-> bytes, elf |-> [ok |-> ok, Entry |-> entry, Progs |-> progs]]

\* 0x100000
MiB == 1024 * 1024

Kernels ==
    { \* one PT_LOAD of 4 KiB at 1 MiB, header asking for memory information
      MkKernel(TRUE, Zeros(16) \o MkHeader(<<3, 0>>), MiB + 12,
               <<ProgNote, ProgLoad(MiB, PageSize, 8)>>),
      \* two PT_LOADs that leave a hole smaller than a page between them
      MkKernel(TRUE, MkHeader(<<0, 0>>), MiB,
               <<ProgLoad(MiB, PageSize + 2048, 8), ProgLoad(MiB + 2 * PageSize, PageSize, 4)>>),
      \* two PT_LOADs that overlap
      MkKernel(TRUE, MkHeader(<<0, 0>>), MiB,
               <<ProgLoad(MiB, PageSize + 1, 8), ProgLoad(MiB + PageSize, PageSize, 4)>>),
      \* not an ELF image
      MkKernel(FALSE, MkHeader(<<0, 0>>), 0, <<>>),
      \* no Multiboot header
      MkKernel(TRUE, Zeros(64), MiB, <<ProgLoad(MiB, PageSize, 8)>>),
      \* a header asking for a video mode
      MkKernel(TRUE, MkHeader(<<4, 0>>), MiB, <<ProgLoad(MiB, PageSize, 8)>>) }

MapEntry(start, end, type) == [start |-> start, end |-> end, type |-> type]

\* The memory-map directory: whether every file of it parses, and its children.
MemoryMaps ==
    { [ok |-> TRUE,
       dirs |-> <<MapEntry(0, 639 * 1024, "RangeRAM"),
                  MapEntry(639 * 1024, 640 * 1024, "RangeDefault"),
                  MapEntry(MiB, MiB + 16 * PageSize, "RangeRAM"),
                  MapEntry(MiB + 16 * PageSize, MiB + 18 * PageSize, "RangeACPI")>>],
      [ok |-> TRUE, dirs |-> <<MapEntry(MiB, MiB + 8 * PageSize, "RangeRAM")>>],
      [ok |-> TRUE, dirs |-> <<MapEntry(639 * 1024, 640 * 1024, "RangeNVS")>>],
      [ok |-> FALSE, dirs |-> <<>>] }

\* "root=/"
CmdLines == {<<>>, <<114, 111, 111, 116, 61, 47>>}

ModuleFiles ==
    { [exists |-> TRUE, data |-> <<1, 2, 3, 4, 5>>, args |-> <<<<97>>>>],
      [exists |-> TRUE, data |-> [i \in 1..(PageSize + 1) |-> 7],
       args |-> <<<<120>>, <<121, 61, 49>>>>],
      [exists |-> TRUE, data |-> <<>>, args |-> <<>>],
      [exists |-> FALSE, data |-> <<>>, args |-> <<>>] }

RECURSIVE SeqsUpTo(_, _)
SeqsUpTo(S, n) ==
    IF n = 0 THEN {<<>>}
    ELSE LET shorter == SeqsUpTo(S, n - 1)
         IN  shorter \cup {Append(q, x) : q \in {t \in shorter : Len(t) = n - 1}, x \in S}

Trampolines ==
    { [exists |-> TRUE,
       data |-> <<144>> \o TrampolineEBX \o Zeros(4) \o <<144, 144>>
                \o TrampolineEP \o Zeros(8) \o <<144>>],
      [exists |-> TRUE, data |-> <<144>> \o TrampolineEBX \o Zeros(4)] }

LoadInputs ==
    [kernel : Kernels, memmap : MemoryMaps, modules : SeqsUpTo(ModuleFiles, MaxModules),
     cmdLine : CmdLines, trampoline : Trampolines]

---------------------------------------------------------------------------
(* Load(), phase by phase *)

NoCall == [op |-> "none"]

NoInfo ==
    [ran |-> FALSE, err |-> "nil", addr |-> 0, found |-> -1, iw |-> NoWrapper,
     modsRan |-> FALSE, mods |-> NoModules, seg |-> 0]

InfoRecord(r) ==
    [ran |-> TRUE, err |-> r.err, addr |-> r.addr, found |-> r.found, iw |-> r.iw,
     modsRan |-> r.modsRan, mods |-> r.mods, seg |-> r.seg]

\* New(file, cmdLine, trampoline, modules)
New ==
    /\ mem = [Phys |-> <<>>, Segments |-> <<>>]
    /\ header = [Flags |-> <<0, 0>>]
    /\ KernelEntry = 0
    /\ InfoAddr = 0
    /\ EntryPoint = 0
    /\ loadErr = "running"
    /\ obs = NoInfo

InitLoad ==
    /\ input \in LoadInputs
    /\ pc = "getEntryPoint"
    /\ New
    /\ args = NoCall
    /\ ret = NoCall

Fail(phase) ==
    /\ pc' = "done"
    /\ loadErr' = phase

\* m.KernelEntry, err = getEntryPoint(kernel)
GetEntryPoint ==
    /\ pc = "getEntryPoint"
    /\ IF input.kernel.elf.ok
       THEN /\ KernelEntry' = input.kernel.elf.Entry
            /\ pc' = "parseHeader"
            /\ UNCHANGED loadErr
       ELSE /\ KernelEntry' = 0
            /\ Fail("getEntryPoint")
    /\ UNCHANGED <<funVars, input, mem, header, InfoAddr, EntryPoint, obs>>

\* The phase that ran returned err: go on with next, or return the error.
Step(err, phase, next) ==
    IF err = "nil"
    THEN pc' = next /\ UNCHANGED loadErr
    ELSE Fail(phase)

ParseHeaderDo(r) ==
    /\ header' = [Flags |-> r.Flags]
    /\ Step(r.err, "parseHeader", "LoadElfSegments")

\* m.header, err = parseHeader(kernel)
ParseHeader ==
    /\ pc = "parseHeader"
    /\ ParseHeaderDo(parseHeader(input.kernel.bytes))
    /\ UNCHANGED <<funVars, input, mem, KernelEntry, InfoAddr, EntryPoint, obs>>

LoadElfDo(r) ==
    /\ mem' = r.mem
    /\ Step(r.err, "LoadElfSegments", "ParseMemoryMap")

\* m.mem.LoadElfSegments(kernel)
LoadElf ==
    /\ pc = "LoadElfSegments"
    /\ LoadElfDo(LoadElfSegments(mem, input.kernel))
    /\ UNCHANGED <<funVars, input, header, KernelEntry, InfoAddr, EntryPoint, obs>>

ParseMapDo(r) ==
    /\ mem' = r.mem
    /\ Step(r.err, "ParseMemoryMap", "addInfo")

\* m.mem.ParseMemoryMap()
ParseMap ==
    /\ pc = "ParseMemoryMap"
    /\ ParseMapDo(ParseMemoryMap(mem, input.memmap))
    /\ UNCHANGED <<funVars, input, header, KernelEntry, InfoAddr, EntryPoint, obs>>

AddInfoDo(r) ==
    /\ mem' = r.mem
    /\ InfoAddr' = r.addr
    /\ obs' = InfoRecord(r)
    /\ Step(r.err, "addInfo", "addTrampoline")

\* m.InfoAddr, err = m.addInfo()
AddInfo ==
    /\ pc = "addInfo"
    /\ AddInfoDo(addInfo(mem, header.Flags, input.modules, input.cmdLine))
    /\ UNCHANGED <<funVars, input, header, KernelEntry, EntryPoint>>

AddTrampolineDo(r) ==
    /\ mem' = r.mem
    /\ EntryPoint' = IF r.err = "nil" THEN r.addr ELSE EntryPoint
    /\ pc' = "done"
    /\ loadErr' = IF r.err = "nil" THEN "nil" ELSE "addTrampoline"

\* m.addTrampoline(), then return nil
AddTrampoline ==
    /\ pc = "addTrampoline"
    /\ AddTrampolineDo(addTrampoline(mem, input.trampoline, InfoAddr, KernelEntry))
    /\ UNCHANGED <<funVars, input, header, KernelEntry, InfoAddr, obs>>

\* Segments()
Segments == mem.Segments

Next ==
    \/ GetEntryPoint
    \/ ParseHeader
    \/ LoadElf
    \/ ParseMap
    \/ AddInfo
    \/ AddTrampoline

Spec == InitLoad /\ [][Next]_vars

---------------------------------------------------------------------------
(* Properties of Load() *)

Loaded == pc = "done" /\ loadErr = "nil"

\* A uint32 word as a natural (below 2^31 in every state of Load()).
Value(w) == w[1] + 65536 * w[2]

\* The uint32 an x86 kernel reads at byte offset off of buf.
ReadLE32(buf, off) ==
    buf[off + 1] + 256 * buf[off + 2] + 65536 * buf[off + 3] + 16777216 * buf[off + 4]

\* The zero-terminated string at byte offset off of buf.
CString(buf, off) ==
    LET stop == CHOOSE i \in (off + 1)..(Len(buf) + 1) :
                    /\ i = Len(buf) + 1 \/ buf[i] = 0
                    /\ \A j \in (off + 1)..(i - 1) : buf[j] # 0
    IN  SubSeq(buf, off + 1, stop - 1)

\* C1: after a complete Load() that returned no error, no two segments of
\* Segments() share a byte of physical memory.
NoSegmentOverlap ==
    Loaded =>
        \A i, j \in 1..Len(Segments) :
            i # j => ~Overlaps(Segments[i].Phys, Segments[j].Phys)

\* A complete Load() of a kernel of two PT_LOADs and a module into a single
\* RAM range that the kernel's segments lie in.
NoSegmentOverlapWitness ==
    /\ Loaded
    /\ Len(mem.Phys) = 1
    /\ Len(Segments) >= 7
    /\ \E i \in 1..Len(Segments) : Segments[i].Phys.Size > PageSize

\* C2: the info block installed at InfoAddr holds cmdline = InfoAddr +
\* sizeof(Info) and bootloader_name = InfoAddr + sizeof(Info) + len(cmdline)
\* + 1, and these addresses, taken into the installed segment, are where the
\* zero-terminated command line and bootloader name start.
InfoPointersLand ==
    (obs.ran /\ obs.err = "nil") =>
        LET seg == mem.Segments[obs.seg]
            cmdline == ReadLE32(seg.Buf, 16)
            name == ReadLE32(seg.Buf, 64)
        IN  /\ seg.Phys.Start = InfoAddr
            /\ cmdline = InfoAddr + sizeofInfo
            /\ name = InfoAddr + sizeofInfo + Len(input.cmdLine) + 1
            /\ cmdline - seg.Phys.Start < Len(seg.Buf)
            /\ name - seg.Phys.Start < Len(seg.Buf)
            /\ CString(seg.Buf, cmdline - seg.Phys.Start) = input.cmdLine
            /\ CString(seg.Buf, name - seg.Phys.Start) = bootloader

\* An info block with a command line, installed above address 0.
InfoPointersLandWitness ==
    /\ obs.ran /\ obs.err = "nil"
    /\ InfoAddr > 0
    /\ Len(input.cmdLine) > 0

\* C5: every module loaded by addModule is recorded with start = the address
\* AddKexecSegment returned and end = start + len(data) - 1, and the data
\* installed for it occupies exactly [start, end + 1).
ModuleEndInclusive ==
    obs.modsRan =>
        /\ Len(obs.mods.modules) = Len(obs.mods.loaded)
        /\ \A i \in 1..Len(obs.mods.loaded) :
              LET l == obs.mods.loaded[i]
                  d == obs.mods.modules[i]
                  seg == mem.Segments[l.seg]
              IN  /\ l.len > 0
                  /\ Value(d.start) = l.addr
                  /\ Value(d.end) = l.addr + l.len - 1
                  /\ seg.Phys.Start = Value(d.start)
                  /\ Len(seg.Buf) = Value(d.end) + 1 - Value(d.start)
                  /\ End(seg.Phys) = Value(d.end) + 1

\* Two modules loaded, one of them longer than a page.
ModuleEndInclusiveWitness ==
    /\ obs.modsRan
    /\ Len(obs.mods.loaded) = 2
    /\ \E i \in 1..2 : obs.mods.loaded[i].len > PageSize
    /\ \E i \in 1..2 : obs.mods.loaded[i].len < PageSize

\* C6: in addModules and in addInfo the address FindSpace returned for the
\* block's size is the address AddKexecSegment then installs the block at, so
\* the block installed there is the one marshalled for its own address.
ReservedIsInstalled ==
    /\ (obs.modsRan /\ obs.mods.err = "nil") =>
          /\ obs.mods.found = obs.mods.addr
          /\ mem.Segments[obs.mods.seg].Phys.Start = obs.mods.addr
          /\ mem.Segments[obs.mods.seg].Buf
                = modulesMarshal(obs.mods.modules, obs.mods.addr)
    /\ (obs.ran /\ obs.err = "nil") =>
          /\ obs.found = obs.addr
          /\ obs.addr = InfoAddr
          /\ mem.Segments[obs.seg].Phys.Start = InfoAddr
          /\ mem.Segments[obs.seg].Buf = infoMarshal(obs.iw, InfoAddr)
    /\ (obs.modsRan /\ obs.mods.found # -1) => obs.mods.err = "nil"
    /\ (obs.ran /\ obs.found # -1) => obs.err = "nil"

\* Both blocks were installed, after other segments had been claimed.
ReservedIsInstalledWitness ==
    /\ obs.ran /\ obs.err = "nil"
    /\ obs.modsRan /\ Len(obs.mods.modules) > 0
    /\ obs.mods.addr > 0
    /\ obs.addr > obs.mods.addr

\* C9: when a phase of Load() fails, Load() returns the error without
\* running the later phases and Segments() returns none of the segments the
\* earlier phases added.
FailedLoadExposesNothing ==
    (pc = "done" /\ loadErr # "nil") =>
        /\ Segments = <<>>
        /\ (loadErr \in {"getEntryPoint", "parseHeader", "LoadElfSegments",
                         "ParseMemoryMap"} => ~obs.ran)
        /\ EntryPoint = 0

\* The segments that hold the byte at physical address a.
Holding(a) ==
    {i \in 1..Len(Segments) :
        a >= Segments[i].Phys.Start /\ a < Segments[i].Phys.Start + Len(Segments[i].Buf)}

\* The byte installed at physical address a.
PhysByte(a) ==
    Segments[CHOOSE i \in Holding(a) : TRUE].Buf[a - Segments[CHOOSE i \in Holding(a) : TRUE].Phys.Start + 1]

\* The uint32 an x86 kernel reads at physical address a.
ReadPhys32(a) ==
    PhysByte(a) + 256 * PhysByte(a + 1) + 65536 * PhysByte(a + 2)
        + 16777216 * PhysByte(a + 3)

\* The zero-terminated string installed at physical address a.
PhysCString(a) ==
    CString(Segments[CHOOSE i \in Holding(a) : TRUE].Buf,
            a - Segments[CHOOSE i \in Holding(a) : TRUE].Phys.Start)

\* The 16 bytes at a are the descriptor of the module loaded as l with the
\* command line cmdLine: start, inclusive end, a pointer to the command
\* line, and a zero word.
DescriptorAt(a, l, cmdLine) ==
    /\ \A k \in 0..15 : Holding(a + k) # {}
    /\ ReadPhys32(a) = l.addr
    /\ ReadPhys32(a + 4) = l.addr + l.len - 1
    /\ Holding(ReadPhys32(a + 8)) # {}
    /\ PhysCString(ReadPhys32(a + 8)) = cmdLine
    /\ ReadPhys32(a + 12) = 0

NonEmptyFile(f) == Len(f.data) > 0

\* count descriptors at addr are those of the files installed, in order.
DescribesModules(addr, count, files, loaded) ==
    /\ count = Len(files)
    /\ Len(loaded) = Len(files)
    /\ \A i \in 1..count :
          DescriptorAt(addr + sizeofModule * (i - 1), loaded[i], Join(files[i].args))

\* The bytes modules.marshal puts in front of the descriptors.
RECURSIVE CmdLinesLen(_)
CmdLinesLen(files) ==
    IF files = <<>> THEN 0
    ELSE Len(Join(Head(files).args)) + 1 + CmdLinesLen(Tail(files))

\* C11: after a Load() with a non-empty module list, ModsCount descriptors
\* of 16 bytes read at physical address ModsAddr, both taken from the
\* installed info block, are exactly the descriptors of the non-empty
\* modules, in order.
ModsFieldsDescribeDescriptors ==
    (obs.ran /\ obs.err = "nil" /\ Len(input.modules) > 0) =>
        DescribesModules(ReadPhys32(InfoAddr + 24), ReadPhys32(InfoAddr + 20),
                         SelectSeq(input.modules, NonEmptyFile), obs.mods.loaded)

\* What the installed blocks hold instead: ModsCount is the length of the
\* module list, empty files included, and the descriptors of the non-empty
\* modules start behind the command lines that ModsAddr points at.
ModsFieldsAsInstalled ==
    (obs.ran /\ obs.err = "nil" /\ Len(input.modules) > 0) =>
        /\ ReadPhys32(InfoAddr + 20) = Len(input.modules)
        /\ ReadPhys32(InfoAddr + 24) = obs.mods.addr
        /\ DescribesModules(obs.mods.addr
                              + CmdLinesLen(SelectSeq(input.modules, NonEmptyFile)),
                            Len(SelectSeq(input.modules, NonEmptyFile)),
                            SelectSeq(input.modules, NonEmptyFile), obs.mods.loaded)

\* An empty module file was skipped and a module with a command line was
\* installed, and the info block was installed after them.
ModsFieldsAsInstalledWitness ==
    /\ Loaded
    /\ Len(input.modules) = 2
    /\ Len(obs.mods.loaded) = 1
    /\ Len(obs.mods.modules[1].cmdLine) > 0

---------------------------------------------------------------------------
(* The state of a Multiboot on which Load is not run: the functions below  *)
(* are called on their own, with args and ret as the call and its return.  *)

IdleInput == CHOOSE i \in LoadInputs : TRUE

---------------------------------------------------------------------------
(* parseHeader and Probe on their own *)

MaxLowWord == 2

\* The last 4-byte word of the window at which a header of 44 bytes fits.
LastWord == (HeaderWindow - 44) \div 4

\* Filler patterns of period 4: zeros, and the magic repeated.
Fills == {<<0, 0, 0, 0>>, LE32(headerMagic)}

\* An image of len bytes: the filler, with the headers of placed written
\* over it, the earlier entries of placed on top.
MkImage(len, fill, placed) ==
    [i \in 1..len |->
        IF \E k \in 1..Len(placed) :
               i > placed[k].off /\ i <= placed[k].off + sizeofHeader
        THEN LET k == CHOOSE k \in 1..Len(placed) :
                          /\ i > placed[k].off /\ i <= placed[k].off + sizeofHeader
                          /\ \A j \in 1..(k - 1) :
                                ~(i > placed[j].off /\ i <= placed[j].off + sizeofHeader)
             IN  MkHeader(placed[k].flags)[i - placed[k].off]
        ELSE fill[((i - 1) % 4) + 1]]

Placed(off, flags) == [off |-> off, flags |-> flags]

HeaderCall(exists, len, fill, placed) ==
    [op |-> "header", exists |-> exists, placed |-> placed,
     image |-> MkImage(len, fill, placed)]

\* One header with supported flags, at a word of the window or 1 to 3 bytes
\* past it, in a file that fills the window or ends with the header.
OneHeaderCalls ==
    { HeaderCall(TRUE, IF whole THEN HeaderWindow + 8 ELSE 4 * w + shift + sizeofHeader,
                 fill, <<Placed(4 * w + shift, flags)>>) :
        w \in (0..MaxLowWord) \cup {LastWord - 1, LastWord},
        shift \in 0..3,
        fill \in Fills,
        flags \in {<<0, 0>>, <<3, 1>>},
        whole \in BOOLEAN }

\* A header at the last offsets of the window, and two headers in one file.
OtherHeaderCalls ==
    { HeaderCall(TRUE, HeaderWindow + 8, fill, <<Placed(off, <<0, 0>>)>>) :
        off \in {HeaderWindow - 12, HeaderWindow - 8}, fill \in Fills }
    \cup
    { HeaderCall(TRUE, HeaderWindow + 8, fill, <<Placed(o1, f1), Placed(o2, f2)>>) :
        o1 \in {0, 16}, o2 \in {64, HeaderWindow - 64}, fill \in Fills,
        f1 \in {<<4, 0>>, <<0, 0>>, <<32768, 0>>}, f2 \in {<<0, 0>>, <<4, 0>>} }
    \cup
    { HeaderCall(TRUE, HeaderWindow + 8, fill, <<Placed(off, flags)>>) :
        off \in {0, 20}, fill \in Fills, flags \in {<<4, 0>>, <<0, 2>>, <<65532, 65535>>} }
    \cup
    { HeaderCall(e, n, <<0, 0, 0, 0>>, <<>>) : e \in BOOLEAN, n \in {0, 5, 64} }

InitHeader ==
    /\ args \in OneHeaderCalls \cup OtherHeaderCalls
    /\ ret = NoCall
    /\ input = IdleInput
    /\ pc = "idle"
    /\ New

\* parseHeader(f) on the opened file
CallParseHeader ==
    /\ args.op = "header" /\ args.exists
    /\ ret.op = "none"
    /\ ret' = [op |-> "parseHeader", res |-> parseHeader(args.image)]
    /\ UNCHANGED <<args, loadVars>>

\* Probe(file)
CallProbe ==
    /\ args.op = "header"
    /\ ret.op = "none"
    /\ ret' = [op |-> "Probe", err |-> Probe(args.exists, args.image)]
    /\ UNCHANGED <<args, loadVars>>

NextHeader == CallParseHeader \/ CallProbe

SpecHeader == InitHeader /\ [][NextHeader]_vars

\* The mandatory words an x86 reader finds at offset o of the image.
WordLE(image, o) == <<image[o + 1] + 256 * image[o + 2], image[o + 3] + 256 * image[o + 4]>>

\* The n bytes of the image io.ReadAtLeast delivers hold, at the
\* 4-byte-aligned offset o, three words with the magic and a zero sum.
ValidAt(image, n, o) ==
    /\ o % 4 = 0
    /\ o + 12 <= n
    /\ WordLE(image, o) = <<45058, 7085>>
    /\ Add32(Add32(WordLE(image, o), WordLE(image, o + 4)), WordLE(image, o + 8)) = <<0, 0>>

\* No bit of 0x0000FFFC is set in the flags of the header at o.
SupportedAt(image, o) == WordLE(image, o + 4)[1] \div 4 = 0

ValidIn(image, n) == {o \in 0..(HeaderWindow - 12) : ValidAt(image, n, o)}

ValidOffsets(image) == ValidIn(image, Min(Len(image), HeaderWindow))

\* C3: a valid header with supported flags placed at a 4-byte-aligned offset
\* in [0, 8192 - 44] of filler bytes is parsed successfully; placed 1, 2 or 3
\* bytes past such an offset it gives ErrHeaderNotFound.
HeaderScanAligned ==
    (/\ ret.op = "parseHeader"
     /\ Len(args.placed) = 1
     /\ args.placed[1].off - (args.placed[1].off % 4) <= HeaderWindow - 44
     /\ args.placed[1].flags[1] \div 4 = 0) =>
        IF args.placed[1].off % 4 = 0
        THEN /\ ret.res.err = "nil"
             /\ ret.res.at = args.placed[1].off
             /\ ret.res.Flags = args.placed[1].flags
        ELSE ret.res.err = "ErrHeaderNotFound"

\* The header was found at the last aligned offset of the claim's range.
HeaderScanAlignedWitness ==
    /\ ret.op = "parseHeader"
    /\ Len(args.placed) = 1
    /\ args.placed[1].off = HeaderWindow - 44
    /\ ret.res.err = "nil"

\* C4 as stated: Probe succeeds exactly when some valid candidate of the
\* first 8192 bytes has supported flags.
ProbeIffSomeSupported ==
    ret.op = "Probe" =>
        (ret.err = "nil" <=>
            /\ args.exists
            /\ \E o \in ValidOffsets(args.image) : SupportedAt(args.image, o))

\* C4, amended: Probe succeeds exactly when the first valid candidate of the
\* first 8192 bytes has supported flags, and reports unsupported flags
\* exactly when that candidate has a bit of 0x0000FFFC set.
ProbeIffFirstSupported ==
    (ret.op = "Probe" /\ args.exists) =>
        LET valid == ValidOffsets(args.image)
            first == CHOOSE o \in valid : \A q \in valid : o <= q
        IN  /\ ret.err = "nil" <=> (valid # {} /\ SupportedAt(args.image, first))
            /\ ret.err = "ErrFlagsNotSupported"
                  <=> (valid # {} /\ ~SupportedAt(args.image, first))

\* Probe met a first header with an unsupported flag, and a later one that
\* is supported.
ProbeIffFirstSupportedWitness ==
    /\ ret.op = "Probe"
    /\ ret.err = "ErrFlagsNotSupported"
    /\ Len(args.placed) = 2
    /\ args.placed[2].flags = <<0, 0>>

---------------------------------------------------------------------------
(* setupTrampoline on its own *)

MaxChunks == 4

\* "ot-ep-quad": the entry label without its first four bytes, and those bytes.
EPTail == SubSeq(TrampolineEP, 5, Len(TrampolineEP))
EPHead == SubSeq(TrampolineEP, 1, 4)

Chunks == {TrampolineEBX, TrampolineEP, EPTail, Zeros(4), Zeros(8), <<144>>}

RECURSIVE Concat(_)
Concat(q) == IF q = <<>> THEN <<>> ELSE q[1] \o Concat(Tail(q))

Blobs == {Concat(q) : q \in SeqsUpTo(Chunks, MaxChunks)}

\* 0xDEADBEEF, 0x1DEADBEEF, and the address whose bytes spell "u-ro".
InfoAddrs ==
    { <<48879, 57005, 0, 0>>, <<48879, 57005, 1, 0>>,
      <<EPHead[1] + 256 * EPHead[2], EPHead[3] + 256 * EPHead[4], 0, 0>> }

\* 0x1122334455667788
EntryPoints == { <<30600, 21862, 13124, 4386>> }

TrampolineCalls ==
    { [op |-> "trampoline", file |-> [exists |-> TRUE, data |-> b],
       infoAddr |-> a, entryPoint |-> e] :
        b \in Blobs, a \in InfoAddrs, e \in EntryPoints }
    \cup
    { [op |-> "trampoline", file |-> [exists |-> FALSE, data |-> <<>>],
       infoAddr |-> a, entryPoint |-> e] : a \in InfoAddrs, e \in EntryPoints }

InitTramp ==
    /\ args \in TrampolineCalls
    /\ ret = NoCall
    /\ input = IdleInput
    /\ pc = "idle"
    /\ New

\* setupTrampoline(path, infoAddr, entryPoint)
CallSetupTrampoline ==
    /\ args.op = "trampoline"
    /\ ret.op = "none"
    /\ ret' = [op |-> "setupTrampoline",
               res |-> setupTrampoline(args.file, args.infoAddr, args.entryPoint)]
    /\ UNCHANGED <<args, loadVars>>

NextTramp == CallSetupTrampoline

SpecTramp == InitTramp /\ [][NextTramp]_vars

\* The 0-based offsets at which label occurs in d.
Occ(d, label) ==
    {i \in 0..(Len(d) - Len(label)) : SubSeq(d, i + 1, i + Len(label)) = label}

Least(S) == CHOOSE i \in S : \A k \in S : i <= k

\* The offset just past the first occurrence of label in d.
After(d, label) == Least(Occ(d, label)) + Len(label)

\* d with the bytes of buf written at the 0-based offset at.
Overwrite(d, at, buf) ==
    [i \in 1..Len(d) |-> IF i > at /\ i <= at + Len(buf) THEN buf[i - at] ELSE d[i]]

\* The low 32 bits, and all 64 bits, of an address in little-endian order.
InfoLE(x) == <<x[1] % 256, x[1] \div 256, x[2] % 256, x[2] \div 256>>
EntryLE(x) ==
    <<x[1] % 256, x[1] \div 256, x[2] % 256, x[2] \div 256,
      x[3] % 256, x[3] \div 256, x[4] % 256, x[4] \div 256>>

Failed == [ok |-> FALSE, d |-> <<>>]

\* The value field that follows label in d is overwritten with buf.
Patched(d, label, buf) ==
    IF Occ(d, label) = {} \/ Len(d) < After(d, label) + Len(buf) THEN Failed
    ELSE [ok |-> TRUE, d |-> Overwrite(d, After(d, label), buf)]

PatchedNext(p, label, buf) == IF p.ok THEN Patched(p.d, label, buf) ELSE Failed

\* Both fields, the entry field looked up in the blob the first patch left.
PatchedBoth(d, info, entry) ==
    PatchedNext(Patched(d, TrampolineEBX, info), TrampolineEP, entry)

Agrees(res, exp) ==
    /\ (res.err = "nil") = exp.ok
    /\ exp.ok => /\ Len(res.d) = Len(exp.d)
                 /\ \A i \in 1..Len(exp.d) : res.d[i] = exp.d[i]

\* Both fields, each looked up in the blob as it was read.
PatchedOriginal(d, info, entry) ==
    [i \in 1..Len(d) |->
        IF i > After(d, TrampolineEBX) /\ i <= After(d, TrampolineEBX) + 4
        THEN info[i - After(d, TrampolineEBX)]
        ELSE IF i > After(d, TrampolineEP) /\ i <= After(d, TrampolineEP) + 8
        THEN entry[i - After(d, TrampolineEP)]
        ELSE d[i]]

\* C7 as stated: a blob with both labels comes back with the 4 bytes after
\* the first "u-root-ebx-long" and the 8 bytes after the first
\* "u-root-ep-quad" patched and nothing else changed; a blob without one of
\* the labels fails.
TrampolinePatchedWheneverLabelled ==
    (ret.op = "setupTrampoline" /\ args.file.exists) =>
        IF Occ(args.file.data, TrampolineEBX) # {} /\ Occ(args.file.data, TrampolineEP) # {}
        THEN /\ ret.res.err = "nil"
             /\ Len(ret.res.d) = Len(args.file.data)
             /\ \A i \in 1..Len(args.file.data) :
                   ret.res.d[i] = PatchedOriginal(args.file.data, InfoLE(args.infoAddr),
                                                  EntryLE(args.entryPoint))[i]
        ELSE ret.res.err # "nil"

\* C7, amended: setupTrampoline succeeds exactly when "u-root-ebx-long"
\* occurs with at least 4 bytes after its first occurrence and, once those 4
\* bytes hold the low 32 bits of infoAddr, "u-root-ep-quad" occurs with at
\* least 8 bytes after its first occurrence; it then returns the blob with
\* those 4 and 8 bytes set, little-endian, every other byte and the length
\* unchanged.
TrampolinePatched ==
    (ret.op = "setupTrampoline" /\ args.file.exists) =>
        Agrees(ret.res, PatchedBoth(args.file.data, InfoLE(args.infoAddr),
                                    EntryLE(args.entryPoint)))

\* The blob of both labels, each followed by its zeroed field, patched with
\* 0xDEADBEEF and 0x1122334455667788.
TrampolinePatchedWitness ==
    /\ ret.op = "setupTrampoline"
    /\ args.file.data = TrampolineEBX \o Zeros(4) \o TrampolineEP \o Zeros(8)
    /\ ret.res.err = "nil"
    /\ ret.res.d = TrampolineEBX \o <<239, 190, 173, 222>>
                   \o TrampolineEP \o <<136, 119, 102, 85, 68, 51, 34, 17>>

---------------------------------------------------------------------------
(* Memory.sub() on its own *)

MaxStart == 3

TypedRange(start, size, type) == [Start |-> start, Size |-> size, Type |-> type]

\* The memory map and the segments of TestMemorySub.
TestPhys ==
    <<TypedRange(0, 100, "RangeRAM"), TypedRange(200, 100, "RangeRAM"),
      TypedRange(400, 100, "RangeRAM"), TypedRange(600, 100, "RangeRAM")>>
TestSegments ==
    <<[Phys |-> Range(0, 50)], [Phys |-> Range(100, 100)], [Phys |-> Range(250, 50)],
      [Phys |-> Range(410, 80)], [Phys |-> Range(599, 102)]>>

\* Ranges of the memory map, of 0, 2 or 3 bytes, and short lists of them.
SmallPhys == {TypedRange(a, n, t) : a \in 0..MaxStart, n \in {0, 2, 3},
                                    t \in {"RangeRAM", "RangeReserved"}}
SmallRAM == {r \in SmallPhys : IsRAM(r)}
PhysLists ==
    {<<>>} \cup {<<r>> : r \in SmallRAM} \cup {<<r, q>> : r \in SmallRAM, q \in SmallPhys}

\* Segments of 0, 1 or 2 bytes, and short lists of them.
SmallSegments == {[Phys |-> Range(a, n)] : a \in 0..(MaxStart + 1), n \in {0, 1, 2}}
SegmentLists ==
    {<<>>} \cup {<<x>> : x \in SmallSegments} \cup {<<x, y>> : x, y \in SmallSegments}

SubCalls ==
    {[op |-> "sub", Phys |-> u, Segments |-> h] : u \in PhysLists, h \in SegmentLists}
    \cup {[op |-> "sub", Phys |-> TestPhys, Segments |-> TestSegments]}

InitSub ==
    /\ args \in SubCalls
    /\ ret = NoCall
    /\ input = IdleInput
    /\ pc = "idle"
    /\ New

\* mem.sub()
CallSub ==
    /\ args.op = "sub"
    /\ ret.op = "none"
    /\ ret' = [op |-> "sub",
               res |-> MemorySub([Phys |-> args.Phys, Segments |-> args.Segments])]
    /\ UNCHANGED <<args, loadVars>>

NextSub == CallSub

SpecSub == InitSub /\ [][NextSub]_vars

\* The bytes of a range, and of a list of ranges.
BytesOf(r) == r.Start..(r.Start + r.Size - 1)
Covered(rs) == UNION {BytesOf(rs[i]) : i \in 1..Len(rs)}
CoveredBySegments(segs) == UNION {BytesOf(segs[i].Phys) : i \in 1..Len(segs)}

\* The maximal runs of the byte set free, in ascending order, tagged type.
RECURSIVE Runs(_, _, _)
Runs(free, from, type) ==
    IF \A b \in free : b < from THEN <<>>
    ELSE LET s == CHOOSE b \in free : b >= from /\ \A c \in free : c >= from => b <= c
             e == CHOOSE b \in free : /\ b >= s
                                      /\ (b + 1) \notin free
                                      /\ \A c \in s..b : c \in free
         IN  <<TypedRange(s, e - s + 1, type)>> \o Runs(free, e + 1, type)

\* The gaps of each range of the memory map, range after range.
RECURSIVE Gaps(_, _)
Gaps(phys, taken) ==
    IF phys = <<>> THEN <<>>
    ELSE Runs(BytesOf(Head(phys)) \ taken, Head(phys).Start, Head(phys).Type)
         \o Gaps(Tail(phys), taken)

\* C8: the ranges Memory.sub() returns hold exactly the bytes of the memory
\* map that no segment holds, each has a positive size, and they are the
\* gaps of the map's ranges in the map's order with the map's type tags.
SubtractIsDifference ==
    ret.op = "sub" =>
        /\ Covered(ret.res) = Covered(args.Phys) \ CoveredBySegments(args.Segments)
        /\ \A i \in 1..Len(ret.res) : ret.res[i].Size > 0
        /\ ret.res = Gaps(args.Phys, CoveredBySegments(args.Segments))

\* TestMemorySub: sub() returned the four ranges the test wants.
SubtractIsDifferenceWitness ==
    /\ ret.op = "sub"
    /\ args.Phys = TestPhys /\ args.Segments = TestSegments
    /\ ret.res = <<TypedRange(50, 50, "RangeRAM"), TypedRange(200, 50, "RangeRAM"),
                   TypedRange(400, 10, "RangeRAM"), TypedRange(490, 10, "RangeRAM")>>

---------------------------------------------------------------------------
(* memoryBoundaries and the MemLower / MemUpper fields on their own *)

MaxRanges == 2

WideRange(start, size, type) == [Start |-> start, Size |-> size, Type |-> type]

\* Starts around 640 KiB and 1 MiB; sizes up to and beyond 4 GiB.
BoundaryStarts == {<<0, 0>>, <<640, 0>>, <<640, 1>>, <<1024, 0>>, <<1024, 1>>}
BoundarySizes ==
    {<<1, 512>>, <<639, 0>>, <<1024, 0>>, <<3072, 0>>,
     <<KiBPer4GiB - 1024, 0>>, <<KiBPer4GiB - 640, 0>>, <<KiBPer4GiB, 0>>,
     <<KiBPer4GiB + 2048, 0>>}

BoundaryRanges ==
    {WideRange(a, n, "RangeRAM") : a \in BoundaryStarts, n \in BoundarySizes}
    \cup {WideRange(<<0, 0>>, <<KiBPer4GiB, 0>>, "RangeReserved"),
          WideRange(<<1024, 0>>, <<3072, 0>>, "RangeACPI")}

BoundsCalls ==
    {[op |-> "bounds", phys |-> p] : p \in SeqsUpTo(BoundaryRanges, MaxRanges)}

InitBounds ==
    /\ args \in BoundsCalls
    /\ ret = NoCall
    /\ input = IdleInput
    /\ pc = "idle"
    /\ New

\* The Info of newMultibootInfo for a header with flagHeaderMemoryInfo.
CallMemoryInfo ==
    /\ args.op = "bounds"
    /\ ret.op = "none"
    /\ ret' = [op |-> "memoryInfo", info |-> memoryInfo(args.phys, 0, 0)]
    /\ UNCHANGED <<args, loadVars>>

NextBounds == CallMemoryInfo

SpecBounds == InitBounds /\ [][NextBounds]_vars

\* start + size of a range, not wrapped.
WideEnd(r) ==
    <<r.Start[1] + r.Size[1] + (r.Start[2] + r.Size[2]) \div 1024,
      (r.Start[2] + r.Size[2]) % 1024>>

WideMax(S) == IF S = {} THEN <<0, 0>> ELSE CHOOSE x \in S : \A y \in S : WLe(y, x)

\* The greatest end over the RAM ranges that start at or below 640 KiB.
LowerEnd(phys) ==
    WideMax({WideEnd(phys[i]) : i \in {j \in 1..Len(phys) :
                /\ phys[j].Type = "RangeRAM"
                /\ WLe(phys[j].Start, <<640, 0>>)}})

\* The greatest end - 1 MiB over the RAM ranges that start at or below 1 MiB.
UpperEnd(phys) ==
    WideMax({<<WideEnd(phys[i])[1] - 1024, WideEnd(phys[i])[2]>> :
                i \in {j \in 1..Len(phys) :
                    /\ phys[j].Type = "RangeRAM"
                    /\ WLe(phys[j].Start, <<1024, 0>>)
                    /\ WLt(<<1024, 0>>, WideEnd(phys[j]))}})

\* A byte count in KiB as a 32-bit word, 2^32 - 1 when it does not fit.
SatKiB(x) == IF x[1] \div 65536 > 65535 THEN <<65535, 65535>> ELSE Word(x[1])

\* C10 as stated: MemLower and MemUpper are the greatest end, and the
\* greatest end - 1 MiB, over the RAM ranges starting at or below 640 KiB
\* and 1 MiB, in KiB, for every memory map, RAM that ends at or above 2^32
\* included.
MemoryBoundsAreMaxima ==
    ret.op = "memoryInfo" =>
        /\ ret.info.MemLower = SatKiB(LowerEnd(args.phys))
        /\ ret.info.MemUpper = SatKiB(UpperEnd(args.phys))

=============================================================================
